---- MODULE Spec2Model ----
(***************************************************************************)
(* Model of src/ai_pathfinder.py: the six uninformed searches of           *)
(* PathfinderGUI (bfs, dfs, ucs, dls, iddfs, bidirectional_search), the    *)
(* shared frontier/explored/path/stats bookkeeping and run_algorithm.      *)
(*                                                                         *)
(* A Node object is an entry of the worker's node arena `nodes`; its       *)
(* parent reference is the index of the parent's entry (0 is None).  A     *)
(* cost is a pair <<a, b>> standing for a + b*sqrt(2), compared exactly.   *)
(* One worker step is the code between two pygame.time.wait calls.         *)
(***************************************************************************)
EXTENDS Integers, Sequences, FiniteSets, TLC

\* Side of the square grid (25 in the source, scaled down for checking).
GRID_SIZE == 3
\* Largest number of wall cells of an initial grid.
MaxWalls == 2
\* Largest depth limit handed to a stand-alone dls() run.
MaxDepthLimit == 3
\* Number of worker threads that can exist at the same time.
MaxThreads == 2
\* Number of UI events (button presses, grid clicks) of one session.
MaxClicks == 3
\* Largest number of walls one call of add_random_walls adds (its count argument).
MaxWallsAdded == 1
\* Largest number of Node objects in an arena handed to reconstruct_path.
MaxNodes == 3

\* spawn_dynamic_obstacle draws from randint(5, GRID_SIZE - 6) and keeps a
\* distance > 4 from start and target, add_random_walls draws from
\* randint(3, GRID_SIZE - 4) and keeps a distance >= 3; the margins 5 and 3 and
\* the distances 4 and 3 belong to the 25x25 grid and are scaled down with it.
SPAWN_MARGIN == 1
SPAWN_EXCLUSION == 0
WALL_MARGIN == 1
WALL_EXCLUSION == 1

ALGORITHMS == <<"BFS", "DFS", "UCS", "DLS", "IDDFS", "Bidirectional">>

DIRECTIONS == << <<-1, 0>>, <<0, 1>>, <<1, 0>>, <<1, 1>>, <<0, -1>>, <<-1, -1>> >>

Threads == 1..MaxThreads

VARIABLES
  size,               \* GRID_SIZE of the running program
  grid,               \* self.grid: cell -> 0 empty, 1 wall, 2 start, 3 target
  start,              \* self.start
  target,             \* self.target
  frontier,           \* self.frontier
  explored,           \* self.explored
  path,               \* self.path
  dynamic_obstacles,  \* keys of self.dynamic_obstacles
  current_algorithm,  \* self.current_algorithm (index into ALGORITHMS, from 1)
  running,            \* self.running
  paused,             \* self.paused
  dls_depth_limit,    \* self.dls_depth_limit
  stats,              \* self.stats (time_elapsed left out)
  spawn_budget,       \* how often random.random() will still fall below the probability
  edit_mode,          \* self.edit_mode
  click_budget,       \* how many UI events the main loop will still receive
  thr                 \* the worker threads: position and locals of run_algorithm

vars == <<size, grid, start, target, frontier, explored, path, dynamic_obstacles,
          current_algorithm, running, paused, dls_depth_limit, stats, spawn_budget,
          edit_mode, click_budget, thr>>

\* the attributes only the main loop writes
gridVars == <<size, grid, start, target, current_algorithm, dls_depth_limit,
              edit_mode, click_budget>>

----------------------------------------------------------------------------
(* Values *)

Cells(sz) == (0..(sz - 1)) \X (0..(sz - 1))

Abs(x) == IF x < 0 THEN -x ELSE x

Reverse(s) == [i \in 1..Len(s) |-> s[Len(s) + 1 - i]]

\* Node.__init__
Node(row, col, cost, parent) == [row |-> row, col |-> col, cost |-> cost, parent |-> parent]

NodePos(n) == <<n.row, n.col>>

ZeroCost == <<0, 0>>

\* Node.__lt__: self.cost < other.cost, a + b*sqrt(2) compared exactly
CostLess(c1, c2) ==
  LET x == c1[1] - c2[1]
      y == c2[2] - c1[2]
  IN  IF x < 0 THEN (y >= 0 \/ x * x > 2 * y * y)
               ELSE (y > 0 /\ x * x < 2 * y * y)

Status(tag, n) == <<tag, n>>

ReadyStats ==
  [nodes_explored |-> 0, path_length |-> 0, nodes_in_frontier |-> 0,
   dynamic_obstacles_spawned |-> 0, algorithm_status |-> Status("Ready", 0)]

----------------------------------------------------------------------------
(* Grid queries *)

\* is_valid without the wall test
IsValidIgnoringWalls(row, col, g, obs, sz) ==
  /\ ~(row < 0 \/ row >= sz \/ col < 0 \/ col >= sz)
  /\ <<row, col>> \notin obs

\* is_valid
IsValid(row, col, g, obs, sz) ==
  /\ ~(row < 0 \/ row >= sz \/ col < 0 \/ col >= sz)
  /\ g[<<row, col>>] # 1
  /\ <<row, col>> \notin obs

\* every move of get_neighbors costing 1, the diagonal ones too
MoveCostUnit(c, d) == <<c[1] + 1, c[2]>>

\* the cost added by one move of get_neighbors
MoveCost(c, d) ==
  IF Abs(d[1]) + Abs(d[2]) = 2 THEN <<c[1], c[2] + 1>> ELSE <<c[1] + 1, c[2]>>

\* get_neighbors: the valid neighbours of node `id` (record n), in DIRECTIONS order
GetNeighbors(id, n, g, obs, sz) ==
  LET cand == [i \in 1..Len(DIRECTIONS) |->
                 Node(n.row + DIRECTIONS[i][1], n.col + DIRECTIONS[i][2],
                      MoveCost(n.cost, DIRECTIONS[i]), id)]
  IN  SelectSeq(cand, LAMBDA m : IsValid(m.row, m.col, g, obs, sz))

\* reconstruct_path: the walk over the parent references, before the reversal
RECURSIVE WalkParents(_, _)
WalkParents(nodes, id) ==
  IF id = 0 THEN <<>>
  ELSE <<NodePos(nodes[id])>> \o WalkParents(nodes, nodes[id].parent)

\* reconstruct_path with the reversal forgotten
ReconstructPathUnreversed(nodes, id) == WalkParents(nodes, id)

\* reconstruct_path with the loop stopping at the node that has no parent
\* ("while current.parent is not None"), so that the root is left out
RECURSIVE WalkToRoot(_, _)
WalkToRoot(nodes, id) ==
  IF id = 0 \/ nodes[id].parent = 0 THEN <<>>
  ELSE <<NodePos(nodes[id])>> \o WalkToRoot(nodes, nodes[id].parent)

ReconstructPathSkipRoot(nodes, id) == Reverse(WalkToRoot(nodes, id))

\* reconstruct_path
ReconstructPath(nodes, id) == Reverse(WalkParents(nodes, id))

\* spawn_dynamic_obstacle: the cells one call may turn into an obstacle
SpawnCandidates ==
  {c \in Cells(size) :
     /\ c[1] >= SPAWN_MARGIN /\ c[1] <= size - (SPAWN_MARGIN + 1)
     /\ c[2] >= SPAWN_MARGIN /\ c[2] <= size - (SPAWN_MARGIN + 1)
     /\ Abs(c[1] - start[1]) > SPAWN_EXCLUSION /\ Abs(c[2] - start[2]) > SPAWN_EXCLUSION
     /\ Abs(c[1] - target[1]) > SPAWN_EXCLUSION /\ Abs(c[2] - target[2]) > SPAWN_EXCLUSION
     /\ grid[c] = 0 /\ c \notin dynamic_obstacles
     /\ c \notin explored /\ c \notin frontier}

\* spawn_dynamic_obstacle: the obstacle sets one call can leave behind
SpawnOutcomes ==
  {dynamic_obstacles} \cup
  (IF spawn_budget > 0 THEN {dynamic_obstacles \cup {c} : c \in SpawnCandidates} ELSE {})

\* spawn_dynamic_obstacle: its effect on the obstacle set, the counter and the budget
Spawn(obs, st) ==
  /\ dynamic_obstacles' = obs
  /\ spawn_budget' = IF obs = dynamic_obstacles THEN spawn_budget ELSE spawn_budget - 1
  /\ stats' = IF obs = dynamic_obstacles THEN st
              ELSE [st EXCEPT !.dynamic_obstacles_spawned = stats.dynamic_obstacles_spawned + 1]

----------------------------------------------------------------------------
(* Worker threads *)

NoCostMap(sz) == [c \in Cells(sz) |-> <<-1, -1>>]
NoNodeMap(sz) == [c \in Cells(sz) |-> 0]

\* what a run has left when run_algorithm returns
NoResult == [path |-> <<>>, explored |-> {}, nodes_explored |-> 0, path_length |-> 0]

\* a thread that does not exist (yet): every local at its empty value.  meet is
\* pos_forward / pos_backward of the iteration that detected the meeting; cutoff
\* records that some call of dls_recursive returned at "if depth >= limit";
\* was_paused records that the worker has sat in a pause wait, in_pause that
\* it sits in one now (pygame.time.wait(100) of the pause branch); result is
\* the search state at the moment run_algorithm returned
IdleThread(sz) ==
  [pc |-> "idle", alg |-> "", nodes |-> <<>>, queue |-> <<>>, stack |-> <<>>,
   heap |-> <<>>, visited |-> {}, visited_cost |-> NoCostMap(sz),
   forward_queue |-> <<>>, forward_visited |-> NoNodeMap(sz),
   backward_queue |-> <<>>, backward_visited |-> NoNodeMap(sz),
   frames |-> <<>>, limit |-> 0, depth_limit |-> 0, dls_ret |-> "none",
   meet |-> <<-1, -1>>, cutoff |-> FALSE, success |-> FALSE,
   was_paused |-> FALSE, in_pause |-> FALSE, result |-> NoResult]

----------------------------------------------------------------------------
(* Initial states: a grid as the editor can leave it, an algorithm selected, *)
(* and the worker thread of one start command just created.                  *)

\* self.grid with the start and target marks (a start placed on the target
\* cell leaves the mark 2 there) and the walls W
GridOf(sz, s, g, W) ==
  [c \in Cells(sz) |-> IF c = s THEN 2 ELSE IF c = g THEN 3 ELSE IF c \in W THEN 1 ELSE 0]

\* the thread object made by the start button: run_algorithm not yet entered
SpawnedThread(sz) == [IdleThread(sz) EXCEPT !.pc = "run_algorithm"]

InitCommon ==
  /\ frontier = {} /\ explored = {} /\ path = <<>> /\ dynamic_obstacles = {}
  /\ running = FALSE /\ paused = FALSE
  /\ stats = ReadyStats
  /\ edit_mode = "place_wall" /\ click_budget = 0
  /\ current_algorithm \in 1..Len(ALGORITHMS)
  /\ dls_depth_limit \in (IF ALGORITHMS[current_algorithm] = "DLS"
                           THEN 1..MaxDepthLimit ELSE {MaxDepthLimit})
  /\ thr = [t \in Threads |-> IF t = 1 THEN SpawnedThread(size) ELSE IdleThread(size)]

\* every grid of side GRID_SIZE with at most MaxWalls walls
InitGrid ==
  /\ size = GRID_SIZE
  /\ \E s \in Cells(GRID_SIZE), g \in Cells(GRID_SIZE) :
       \E W \in SUBSET (Cells(GRID_SIZE) \ {s, g}) :
         /\ Cardinality(W) <= MaxWalls
         /\ start = s /\ target = g
         /\ grid = GridOf(GRID_SIZE, s, g, W)

\* the empty 5x5 grid with the start and the target in opposite corners
InitScenario ==
  /\ size = 5
  /\ start = <<0, 0>> /\ target = <<4, 4>>
  /\ grid = GridOf(5, <<0, 0>>, <<4, 4>>, {})

\* one full row of walls between the start and the target
InitSeparated ==
  /\ size = GRID_SIZE
  /\ \E r \in 1..(GRID_SIZE - 2) :
       \E s \in Cells(GRID_SIZE), g \in Cells(GRID_SIZE) :
         /\ s[1] < r /\ g[1] > r
         /\ start = s /\ target = g
         /\ grid = GridOf(GRID_SIZE, s, g, {c \in Cells(GRID_SIZE) : c[1] = r})

\* a 5x5 grid on which the paths of fewest hops are not all of least cost
\* (from (3,2) to (0,2): six hops either way round, with one or three diagonals)
InitDetour ==
  /\ size = 5
  /\ start = <<3, 2>>
  /\ \E g \in Cells(5) \ {<<3, 2>>, <<2, 1>>, <<2, 2>>, <<3, 3>>} :
       /\ target = g
       /\ grid = GridOf(5, <<3, 2>>, g, {<<2, 1>>, <<2, 2>>, <<3, 3>>})

Init ==
  /\ InitGrid \/ InitScenario \/ InitSeparated \/ InitDetour
  /\ spawn_budget = 0
  /\ InitCommon

----------------------------------------------------------------------------
(* run_algorithm *)

\* clear_path: the statistics it leaves
ClearedStats == ReadyStats

\* the locals each algorithm sets up before its loop, and its first status
AlgorithmEntry(name, L) ==
  LET s0 == Node(start[1], start[2], ZeroCost, 0)
      g0 == Node(target[1], target[2], ZeroCost, 0)
  IN  CASE name = "BFS" ->
             [L EXCEPT !.pc = "bfs", !.nodes = <<s0>>, !.queue = <<1>>, !.visited = {start}]
        [] name = "DFS" ->
             [L EXCEPT !.pc = "dfs", !.nodes = <<s0>>, !.stack = <<1>>, !.visited = {start}]
        [] name = "UCS" ->
             [L EXCEPT !.pc = "ucs", !.nodes = <<s0>>, !.heap = <<1>>,
                       !.visited_cost = [NoCostMap(size) EXCEPT ![start] = ZeroCost]]
        [] name = "DLS" ->
             [L EXCEPT !.pc = "dls", !.nodes = <<s0>>, !.limit = dls_depth_limit,
                       !.visited = {start},
                       !.frames = <<[node |-> 1, depth |-> 0, nbrs |-> <<>>, i |-> 0,
                                     entered |-> FALSE]>>]
        [] name = "IDDFS" ->
             [L EXCEPT !.pc = "iddfs", !.depth_limit = 0, !.dls_ret = "none"]
        [] name = "Bidirectional" ->
             [L EXCEPT !.pc = "bidirectional", !.nodes = <<s0, s0, g0, g0>>,
                       !.forward_queue = <<1>>,
                       !.forward_visited = [NoNodeMap(size) EXCEPT ![start] = 2],
                       !.backward_queue = <<3>>,
                       !.backward_visited = [NoNodeMap(size) EXCEPT ![target] = 4]]

EntryStatus(name) ==
  CASE name = "BFS" -> Status("Running BFS...", 0)
    [] name = "DFS" -> Status("Running DFS...", 0)
    [] name = "UCS" -> Status("Running UCS...", 0)
    [] name = "DLS" -> Status("Running DLS", dls_depth_limit)
    [] name = "IDDFS" -> Status("Ready", 0)
    [] name = "Bidirectional" -> Status("Running Bidirectional...", 0)

\* run_algorithm up to the first loop test of the selected algorithm
RunAlgorithm(t) ==
  LET L == thr[t]
      name == ALGORITHMS[current_algorithm]
  IN  /\ L.pc = "run_algorithm"
      /\ frontier' = {} /\ explored' = {} /\ path' = <<>> /\ dynamic_obstacles' = {}
      /\ stats' = [ClearedStats EXCEPT !.algorithm_status = EntryStatus(name)]
      /\ running' = TRUE
      /\ thr' = [thr EXCEPT ![t] = AlgorithmEntry(name, [L EXCEPT !.alg = name])]
      /\ UNCHANGED <<paused, spawn_budget>>
      /\ UNCHANGED gridVars

\* a thread whose run_algorithm has returned: its locals are gone, what the
\* run reported is kept
Ended(L) ==
  [IdleThread(size) EXCEPT !.pc = "done", !.alg = L.alg, !.limit = L.limit,
                           !.depth_limit = L.depth_limit, !.meet = L.meet,
                           !.cutoff = L.cutoff, !.success = L.success,
                           !.was_paused = L.was_paused,
                           !.result = [path |-> path, explored |-> explored,
                                       nodes_explored |-> stats.nodes_explored,
                                       path_length |-> stats.path_length]]

\* run_algorithm returning with self.running left as it is
FinishStillRunning(t) ==
  /\ thr[t].pc = "return"
  /\ thr' = [thr EXCEPT ![t] = Ended(thr[t])]
  /\ UNCHANGED <<frontier, explored, path, dynamic_obstacles, paused, stats, spawn_budget>>
  /\ UNCHANGED <<running>>
  /\ UNCHANGED gridVars

\* run_algorithm after the algorithm returned: self.running = False
Finish(t) ==
  /\ thr[t].pc = "return"
  /\ running' = FALSE
  /\ thr' = [thr EXCEPT ![t] = Ended(thr[t])]
  /\ UNCHANGED <<frontier, explored, path, dynamic_obstacles, paused, stats, spawn_budget>>
  /\ UNCHANGED gridVars

\* the locals of a worker that comes out of a wait
Awake(L) == [L EXCEPT !.in_pause = FALSE]

\* the loop of bfs, dfs, ucs or bidirectional_search left by its while test
LoopExit(t) ==
  /\ stats' = [stats EXCEPT !.algorithm_status = Status("No Path Found", 0)]
  /\ thr' = [thr EXCEPT ![t] = [Awake(thr[t]) EXCEPT !.pc = "return", !.success = FALSE]]
  /\ UNCHANGED <<frontier, explored, path, dynamic_obstacles, spawn_budget>>

\* an iteration that finds self.paused set, with the wait counted as an expansion
PausedIterationCounted(t, obs) ==
  /\ Spawn(obs, [stats EXCEPT !.nodes_explored = @ + 1])
  /\ thr' = [thr EXCEPT ![t].was_paused = TRUE, ![t].in_pause = TRUE]
  /\ UNCHANGED <<frontier, explored, path>>

\* an iteration that finds self.paused set: the wait, then continue
PausedIteration(t, obs) ==
  /\ Spawn(obs, stats)
  /\ thr' = [thr EXCEPT ![t].was_paused = TRUE, ![t].in_pause = TRUE]
  /\ UNCHANGED <<frontier, explored, path>>

----------------------------------------------------------------------------
(* bfs *)

\* the for loop of bfs with the neighbours put at the head of the queue
RECURSIVE BfsInsertAtHead(_, _, _)
BfsInsertAtHead(nbrs, i, a) ==
  IF i > Len(nbrs) THEN a
  ELSE LET pos == NodePos(nbrs[i])
       IN  IF pos \notin a.visited
           THEN BfsInsertAtHead(nbrs, i + 1,
                  [nodes |-> Append(a.nodes, nbrs[i]),
                   queue |-> <<Len(a.nodes) + 1>> \o a.queue,
                   visited |-> a.visited \cup {pos},
                   frontier |-> a.frontier \cup {pos}])
           ELSE BfsInsertAtHead(nbrs, i + 1, a)

\* the for loop of bfs over the neighbours
RECURSIVE BfsInsert(_, _, _)
BfsInsert(nbrs, i, a) ==
  IF i > Len(nbrs) THEN a
  ELSE LET pos == NodePos(nbrs[i])
       IN  IF pos \notin a.visited
           THEN BfsInsert(nbrs, i + 1,
                  [nodes |-> Append(a.nodes, nbrs[i]),
                   queue |-> Append(a.queue, Len(a.nodes) + 1),
                   visited |-> a.visited \cup {pos},
                   frontier |-> a.frontier \cup {pos}])
           ELSE BfsInsert(nbrs, i + 1, a)

\* one iteration of the while loop of bfs
BfsStep(t) ==
  LET L == Awake(thr[t]) IN
  /\ L.pc = "bfs"
  /\ IF ~(L.queue # <<>> /\ running) THEN LoopExit(t)
     ELSE \E obs \in SpawnOutcomes :
       IF paused THEN PausedIteration(t, obs)
       ELSE
         LET current == Head(L.queue)
             n == L.nodes[current]
             pos == NodePos(n)
             st1 == [stats EXCEPT !.nodes_explored = @ + 1]
         IN  /\ explored' = explored \cup {pos}
             /\ IF pos = target
                THEN LET p == ReconstructPath(L.nodes, current)
                     IN  /\ path' = p
                         /\ Spawn(obs, [st1 EXCEPT !.path_length = Len(p),
                                          !.algorithm_status = Status("Path Found!", 0)])
                         /\ thr' = [thr EXCEPT ![t] = [L EXCEPT !.queue = Tail(L.queue),
                                                         !.pc = "return", !.success = TRUE]]
                         /\ UNCHANGED frontier
                ELSE LET a == BfsInsert(GetNeighbors(current, n, grid, obs, size), 1,
                                [nodes |-> L.nodes, queue |-> Tail(L.queue),
                                 visited |-> L.visited, frontier |-> frontier])
                     IN  /\ frontier' = a.frontier \ {pos}
                         /\ Spawn(obs, [st1 EXCEPT !.nodes_in_frontier = Len(a.queue)])
                         /\ thr' = [thr EXCEPT ![t] = [L EXCEPT !.nodes = a.nodes,
                                       !.queue = a.queue, !.visited = a.visited]]
                         /\ UNCHANGED path
  /\ UNCHANGED <<running, paused>>
  /\ UNCHANGED gridVars

----------------------------------------------------------------------------
(* dfs *)

\* the for loop of dfs over reversed(neighbors); nbrs is already reversed
RECURSIVE DfsPush(_, _, _)
DfsPush(nbrs, i, a) ==
  IF i > Len(nbrs) THEN a
  ELSE LET pos == NodePos(nbrs[i])
       IN  IF pos \notin a.visited
           THEN DfsPush(nbrs, i + 1,
                  [nodes |-> Append(a.nodes, nbrs[i]),
                   stack |-> Append(a.stack, Len(a.nodes) + 1),
                   visited |-> a.visited \cup {pos},
                   frontier |-> a.frontier \cup {pos}])
           ELSE DfsPush(nbrs, i + 1, a)

\* one iteration of the while loop of dfs
DfsStep(t) ==
  LET L == Awake(thr[t]) IN
  /\ L.pc = "dfs"
  /\ IF ~(L.stack # <<>> /\ running) THEN LoopExit(t)
     ELSE \E obs \in SpawnOutcomes :
       IF paused THEN PausedIteration(t, obs)
       ELSE
         LET current == L.stack[Len(L.stack)]
             rest == SubSeq(L.stack, 1, Len(L.stack) - 1)
             n == L.nodes[current]
             pos == NodePos(n)
             st1 == [stats EXCEPT !.nodes_explored = @ + 1]
         IN  /\ explored' = explored \cup {pos}
             /\ IF pos = target
                THEN LET p == ReconstructPath(L.nodes, current)
                     IN  /\ path' = p
                         /\ frontier' = frontier \ {pos}
                         /\ Spawn(obs, [st1 EXCEPT !.path_length = Len(p),
                                          !.algorithm_status = Status("Path Found!", 0)])
                         /\ thr' = [thr EXCEPT ![t] = [L EXCEPT !.stack = rest,
                                                         !.pc = "return", !.success = TRUE]]
                ELSE LET a == DfsPush(Reverse(GetNeighbors(current, n, grid, obs, size)), 1,
                                [nodes |-> L.nodes, stack |-> rest,
                                 visited |-> L.visited, frontier |-> frontier \ {pos}])
                     IN  /\ frontier' = a.frontier
                         /\ Spawn(obs, [st1 EXCEPT !.nodes_in_frontier = Len(a.stack)])
                         /\ thr' = [thr EXCEPT ![t] = [L EXCEPT !.nodes = a.nodes,
                                       !.stack = a.stack, !.visited = a.visited]]
                         /\ UNCHANGED path
  /\ UNCHANGED <<running, paused>>
  /\ UNCHANGED gridVars

----------------------------------------------------------------------------
(* ucs: the heap is a list of node ids kept in heap order by heapq *)

\* heapq._siftdown(heap, 0, pos) for the item `item` lifted from position pos;
\* positions are counted from 1, the parent of p is p \div 2
RECURSIVE SiftDown(_, _, _, _)
SiftDown(nodes, heap, pos, item) ==
  IF pos > 1 /\ CostLess(nodes[item].cost, nodes[heap[pos \div 2]].cost)
  THEN SiftDown(nodes, [heap EXCEPT ![pos] = heap[pos \div 2]], pos \div 2, item)
  ELSE [heap EXCEPT ![pos] = item]

\* heapq.heappush
HeapPush(nodes, heap, item) ==
  SiftDown(nodes, Append(heap, item), Len(heap) + 1, item)

\* heapq._siftup(heap, 0): the smaller child is moved up until a leaf is hit,
\* then the item is sifted down from there
RECURSIVE SiftUp(_, _, _, _)
SiftUp(nodes, heap, pos, item) ==
  LET child == 2 * pos
      right == child + 1
      pick == IF right <= Len(heap)
                 /\ ~CostLess(nodes[heap[child]].cost, nodes[heap[right]].cost)
              THEN right ELSE child
  IN  IF child <= Len(heap)
      THEN SiftUp(nodes, [heap EXCEPT ![pos] = heap[pick]], pick, item)
      ELSE SiftDown(nodes, heap, pos, item)

\* heapq.heappop: the heap that is left (the item returned is heap[1])
HeapPop(nodes, heap) ==
  LET last == heap[Len(heap)]
      rest == SubSeq(heap, 1, Len(heap) - 1)
  IN  IF rest = <<>> THEN rest ELSE SiftUp(nodes, rest, 1, last)

\* the for loop of ucs over the neighbours
RECURSIVE UcsRelax(_, _, _)
UcsRelax(nbrs, i, a) ==
  IF i > Len(nbrs) THEN a
  ELSE LET pos == NodePos(nbrs[i])
           known == a.visited_cost[pos]
       IN  IF known = <<-1, -1>> \/ CostLess(nbrs[i].cost, known)
           THEN LET ns == Append(a.nodes, nbrs[i])
                IN  UcsRelax(nbrs, i + 1,
                      [nodes |-> ns,
                       heap |-> HeapPush(ns, a.heap, Len(ns)),
                       visited_cost |-> [a.visited_cost EXCEPT ![pos] = nbrs[i].cost],
                       frontier |-> a.frontier \cup {pos}])
           ELSE UcsRelax(nbrs, i + 1, a)

\* one iteration of the while loop of ucs
UcsStep(t) ==
  LET L == Awake(thr[t]) IN
  /\ L.pc = "ucs"
  /\ IF ~(L.heap # <<>> /\ running) THEN LoopExit(t)
     ELSE \E obs \in SpawnOutcomes :
       IF paused THEN PausedIteration(t, obs)
       ELSE
         LET current == L.heap[1]
             rest == HeapPop(L.nodes, L.heap)
             n == L.nodes[current]
             pos == NodePos(n)
             st1 == [stats EXCEPT !.nodes_explored = @ + 1]
         IN  IF pos \in explored
             THEN /\ Spawn(obs, stats)
                  /\ thr' = [thr EXCEPT ![t] = [L EXCEPT !.heap = rest]]
                  /\ UNCHANGED <<frontier, explored, path>>
             ELSE
               /\ explored' = explored \cup {pos}
               /\ IF pos = target
                  THEN LET p == ReconstructPath(L.nodes, current)
                       IN  /\ path' = p
                           /\ Spawn(obs, [st1 EXCEPT !.path_length = Len(p),
                                            !.algorithm_status = Status("Path Found!", 0)])
                           /\ thr' = [thr EXCEPT ![t] = [L EXCEPT !.heap = rest,
                                                           !.pc = "return", !.success = TRUE]]
                           /\ UNCHANGED frontier
                  ELSE LET a == UcsRelax(GetNeighbors(current, n, grid, obs, size), 1,
                                  [nodes |-> L.nodes, heap |-> rest,
                                   visited_cost |-> L.visited_cost, frontier |-> frontier])
                       IN  /\ frontier' = a.frontier \ {pos}
                           /\ Spawn(obs, [st1 EXCEPT !.nodes_in_frontier = Len(a.heap)])
                           /\ thr' = [thr EXCEPT ![t] = [L EXCEPT !.nodes = a.nodes,
                                         !.heap = a.heap, !.visited_cost = a.visited_cost]]
                           /\ UNCHANGED path
  /\ UNCHANGED <<running, paused>>
  /\ UNCHANGED gridVars

----------------------------------------------------------------------------
(* dls: the recursion of dls_recursive is the stack `frames`; a frame holds  *)
(* its node, its depth, the neighbour list of its for loop and the index i   *)
(* of the neighbour whose call is in progress.  The top frame of a waiting   *)
(* worker is a call that has not been entered yet (entered = FALSE).         *)

\* the recursive call passing on its own depth instead of depth + 1
PendingFrameSameDepth(id, depth) ==
  [node |-> id, depth |-> IF depth = 0 THEN 0 ELSE depth - 1,
   nbrs |-> <<>>, i |-> 0, entered |-> FALSE]

PendingFrame(id, depth) ==
  [node |-> id, depth |-> depth, nbrs |-> <<>>, i |-> 0, entered |-> FALSE]

\* the for loop taking the neighbours from the end of the list
NextUnvisitedFromEnd(f, visited) ==
  LET J == {j \in (f.i + 1)..Len(f.nbrs) : NodePos(f.nbrs[j]) \notin visited}
  IN  IF J = {} THEN 0 ELSE CHOOSE j \in J : \A k \in J : j >= k

\* the index of the next neighbour of the for loop that is not in visited (0: none)
NextUnvisited(f, visited) ==
  LET J == {j \in (f.i + 1)..Len(f.nbrs) : NodePos(f.nbrs[j]) \notin visited}
  IN  IF J = {} THEN 0 ELSE CHOOSE j \in J : \A k \in J : j <= k

RECURSIVE DlsLoop(_), DlsReturnNone(_)
\* the for loop of the top frame, resumed after neighbour i: up to the wait
\* before the next recursive call, or to the return of the outermost call
DlsLoop(a) ==
  LET f == a.frames[Len(a.frames)]
      j == NextUnvisited(f, a.visited)
  IN  IF j = 0 THEN DlsReturnNone(a)
      ELSE LET pos == NodePos(f.nbrs[j])
               ns == Append(a.nodes, f.nbrs[j])
           IN  [frames |-> Append([a.frames EXCEPT ![Len(a.frames)].i = j],
                                  PendingFrame(Len(ns), f.depth + 1)),
                visited |-> a.visited \cup {pos},
                frontier |-> a.frontier \cup {pos},
                nodes |-> ns,
                done |-> FALSE]

\* the top call returns None: the caller drops the neighbour from the frontier
\* and goes on with its loop
DlsReturnNone(a) ==
  LET rest == SubSeq(a.frames, 1, Len(a.frames) - 1)
  IN  IF rest = <<>> THEN [a EXCEPT !.frames = rest, !.done = TRUE]
      ELSE LET p == rest[Len(rest)]
           IN  DlsLoop([a EXCEPT !.frames = rest,
                                 !.frontier = a.frontier \ {NodePos(p.nbrs[p.i])}])

\* dls after dls_recursive returned, and the hand-over to its caller
DlsResult(L, found) ==
  IF L.alg = "IDDFS"
  THEN [L EXCEPT !.pc = "iddfs", !.dls_ret = IF found THEN "true" ELSE "false"]
  ELSE [L EXCEPT !.pc = "return", !.success = found]

\* the worker's state after the unwinding a: waiting before the next call, or
\* dls finished without a result
DlsAfter(t, L, a, obs, st) ==
  /\ frontier' = a.frontier
  /\ UNCHANGED path
  /\ IF a.done
     THEN /\ Spawn(obs, [st EXCEPT !.algorithm_status =
                                     Status("No Path (limit too small)", L.limit)])
          /\ thr' = [thr EXCEPT ![t] =
                       DlsResult([L EXCEPT !.frames = a.frames, !.visited = a.visited,
                                           !.nodes = a.nodes], FALSE)]
     ELSE /\ Spawn(obs, st)
          /\ thr' = [thr EXCEPT ![t] = [L EXCEPT !.frames = a.frames, !.pc = "dls",
                                          !.visited = a.visited, !.nodes = a.nodes]]

\* dls_recursive from "Mark as explored" on, for the call on top of the stack
DlsBody(t, obs) ==
  LET L == Awake(thr[t])
      f == L.frames[Len(L.frames)]
      n == L.nodes[f.node]
      pos == NodePos(n)
      st1 == IF pos \notin explored THEN [stats EXCEPT !.nodes_explored = @ + 1] ELSE stats
      a0 == [frames |-> L.frames, visited |-> L.visited, frontier |-> frontier,
             nodes |-> L.nodes, done |-> FALSE]
  IN  /\ explored' = explored \cup {pos}
      /\ IF pos = target
         THEN LET p == ReconstructPath(L.nodes, f.node)
              IN  /\ path' = p
                  /\ Spawn(obs, [st1 EXCEPT !.path_length = Len(p),
                                   !.algorithm_status = Status("Path Found! (depth)", Len(p))])
                  /\ thr' = [thr EXCEPT ![t] = DlsResult([L EXCEPT !.frames = <<>>], TRUE)]
                  /\ UNCHANGED frontier
         ELSE IF f.depth >= L.limit
         THEN DlsAfter(t, [L EXCEPT !.cutoff = TRUE], DlsReturnNone(a0), obs, st1)
         ELSE DlsAfter(t, L,
                DlsLoop([a0 EXCEPT !.frames[Len(L.frames)] =
                           [f EXCEPT !.entered = TRUE,
                                     !.nbrs = GetNeighbors(f.node, n, grid, obs, size)]]),
                obs, st1)

\* one call of dls_recursive, from its entry to the wait before the next call
DlsStep(t) ==
  LET L == Awake(thr[t])
      a0 == [frames |-> L.frames, visited |-> L.visited, frontier |-> frontier,
             nodes |-> L.nodes, done |-> FALSE]
  IN  /\ L.pc = "dls"
      /\ IF ~running
         THEN /\ DlsAfter(t, L, DlsReturnNone(a0), dynamic_obstacles, stats)
              /\ UNCHANGED explored
         ELSE \E obs \in SpawnOutcomes :
                IF paused
                THEN /\ Spawn(obs, stats)
                     /\ thr' = [thr EXCEPT ![t] = [L EXCEPT !.pc = "dls_wait",
                                                           !.was_paused = TRUE,
                                                           !.in_pause = TRUE]]
                     /\ UNCHANGED <<frontier, explored, path>>
                ELSE DlsBody(t, obs)
      /\ UNCHANGED <<running, paused>>
      /\ UNCHANGED gridVars

\* the pause loop of dls_recursive left (resumed or cancelled): the call goes on
DlsWait(t) ==
  /\ thr[t].pc = "dls_wait"
  /\ ~(paused /\ running)
  /\ DlsBody(t, dynamic_obstacles)
  /\ UNCHANGED <<running, paused>>
  /\ UNCHANGED gridVars

----------------------------------------------------------------------------
(* iddfs *)

\* max_depth = GRID_SIZE * 2
MaxDepth(sz) == sz * 2

\* iddfs between two dls calls: the tests after the dls that returned, then
\* the next pass of the for loop up to the first call of dls_recursive
IddfsStep(t) ==
  LET L == Awake(thr[t])
      d == L.depth_limit + 1
  IN  /\ L.pc = "iddfs"
      /\ IF L.dls_ret = "true"
         THEN /\ stats' = [stats EXCEPT !.algorithm_status =
                                          Status("Found at depth", L.depth_limit)]
              /\ thr' = [thr EXCEPT ![t] = [L EXCEPT !.pc = "return", !.success = TRUE]]
              /\ UNCHANGED <<frontier, explored, path, dynamic_obstacles>>
         ELSE IF L.dls_ret = "false" /\ ~running
         THEN /\ thr' = [thr EXCEPT ![t] = [L EXCEPT !.pc = "return", !.success = FALSE]]
              /\ UNCHANGED <<frontier, explored, path, dynamic_obstacles, stats>>
         ELSE IF d >= MaxDepth(size)
         THEN /\ stats' = [stats EXCEPT !.algorithm_status = Status("No Path Found", 0)]
              /\ thr' = [thr EXCEPT ![t] = [L EXCEPT !.pc = "return", !.success = FALSE]]
              /\ UNCHANGED <<frontier, explored, path, dynamic_obstacles>>
         ELSE /\ frontier' = {} /\ explored' = {} /\ path' = <<>> /\ dynamic_obstacles' = {}
              /\ stats' = [ClearedStats EXCEPT !.algorithm_status = Status("Running DLS", d)]
              /\ thr' = [thr EXCEPT ![t] =
                           [L EXCEPT !.pc = "dls", !.depth_limit = d, !.limit = d,
                                     !.dls_ret = "none", !.cutoff = FALSE,
                                     !.nodes = <<Node(start[1], start[2], ZeroCost, 0)>>,
                                     !.visited = {start},
                                     !.frames = <<PendingFrame(1, 0)>>]]
      /\ UNCHANGED <<running, paused, spawn_budget>>
      /\ UNCHANGED gridVars

----------------------------------------------------------------------------
(* bidirectional_search *)

\* the for loop of one side over the neighbours; visited maps a cell to its node
RECURSIVE BidirInsert(_, _, _)
BidirInsert(nbrs, i, a) ==
  IF i > Len(nbrs) THEN a
  ELSE LET pos == NodePos(nbrs[i])
       IN  IF a.visited[pos] = 0
           THEN BidirInsert(nbrs, i + 1,
                  [nodes |-> Append(a.nodes, nbrs[i]),
                   queue |-> Append(a.queue, Len(a.nodes) + 1),
                   visited |-> [a.visited EXCEPT ![pos] = Len(a.nodes) + 1],
                   frontier |-> a.frontier \cup {pos}])
           ELSE BidirInsert(nbrs, i + 1, a)

\* the two halves joined without dropping the shared cell
JoinPathsKeepingBoth(nodes, forward_node, backward_node) ==
  ReconstructPath(nodes, forward_node) \o Reverse(ReconstructPath(nodes, backward_node))

\* self.path = forward_path + backward_path[::-1][1:]
JoinPaths(nodes, forward_node, backward_node) ==
  ReconstructPath(nodes, forward_node) \o Tail(Reverse(ReconstructPath(nodes, backward_node)))

\* the state left by a detected meeting
BidirMet(t, L, m, p, obs, st) ==
  /\ path' = p
  /\ Spawn(obs, [st EXCEPT !.path_length = Len(p),
                           !.algorithm_status = Status("Paths Met!", 0)])
  /\ thr' = [thr EXCEPT ![t] = [L EXCEPT !.pc = "return", !.success = TRUE, !.meet = m]]

\* one iteration of the while loop of bidirectional_search
BidirectionalStep(t) ==
  LET L == Awake(thr[t]) IN
  /\ L.pc = "bidirectional"
  /\ IF ~(L.forward_queue # <<>> /\ L.backward_queue # <<>> /\ running) THEN LoopExit(t)
     ELSE \E obs \in SpawnOutcomes :
       IF paused THEN PausedIteration(t, obs)
       ELSE
         LET current_forward == Head(L.forward_queue)
             nf == L.nodes[current_forward]
             pos_forward == NodePos(nf)
             st1 == [stats EXCEPT !.nodes_explored = @ + 1]
         IN  IF L.backward_visited[pos_forward] # 0
             THEN /\ explored' = explored \cup {pos_forward}
                  /\ BidirMet(t, [L EXCEPT !.forward_queue = Tail(L.forward_queue)], pos_forward,
                       JoinPaths(L.nodes, current_forward, L.backward_visited[pos_forward]),
                       obs, st1)
                  /\ UNCHANGED frontier
             ELSE
               LET fw == BidirInsert(GetNeighbors(current_forward, nf, grid, obs, size), 1,
                            [nodes |-> L.nodes, queue |-> Tail(L.forward_queue),
                             visited |-> L.forward_visited, frontier |-> frontier])
                   current_backward == Head(L.backward_queue)
                   nb == fw.nodes[current_backward]
                   pos_backward == NodePos(nb)
                   st2 == [st1 EXCEPT !.nodes_explored = @ + 1]
                   L1 == [L EXCEPT !.nodes = fw.nodes, !.forward_queue = fw.queue,
                                   !.forward_visited = fw.visited,
                                   !.backward_queue = Tail(L.backward_queue)]
               IN  /\ explored' = explored \cup {pos_forward, pos_backward}
                   /\ IF fw.visited[pos_backward] # 0
                      THEN /\ BidirMet(t, L1, pos_backward,
                                JoinPaths(fw.nodes, fw.visited[pos_backward], current_backward),
                                obs, st2)
                           /\ frontier' = fw.frontier
                      ELSE LET bw == BidirInsert(
                                       GetNeighbors(current_backward, nb, grid, obs, size), 1,
                                       [nodes |-> fw.nodes, queue |-> Tail(L.backward_queue),
                                        visited |-> L.backward_visited,
                                        frontier |-> fw.frontier])
                           IN  /\ frontier' = bw.frontier
                               /\ Spawn(obs, [st2 EXCEPT !.nodes_in_frontier =
                                                Len(fw.queue) + Len(bw.queue)])
                               /\ thr' = [thr EXCEPT ![t] =
                                            [L1 EXCEPT !.nodes = bw.nodes,
                                                       !.backward_queue = bw.queue,
                                                       !.backward_visited = bw.visited]]
                               /\ UNCHANGED path
  /\ UNCHANGED <<running, paused>>
  /\ UNCHANGED gridVars

----------------------------------------------------------------------------
Next ==
  \E t \in Threads :
    \/ RunAlgorithm(t)
    \/ BfsStep(t)
    \/ DfsStep(t)
    \/ UcsStep(t)
    \/ DlsStep(t)
    \/ IddfsStep(t)
    \/ BidirectionalStep(t)
    \/ Finish(t)

Spec == Init /\ [][Next]_vars

----------------------------------------------------------------------------
(* The main loop of run(): one action per UI event it handles.  Every event  *)
(* uses up one unit of click_budget.                                         *)

EDIT_MODES == {"place_start", "place_target", "place_wall", "erase"}

\* one event taken from the event queue
Click == click_budget > 0 /\ click_budget' = click_budget - 1

\* the worker slot a new threading.Thread object takes: the first unused one
FreeSlot(t) ==
  /\ thr[t].pc = "idle"
  /\ \A u \in Threads : u < t => thr[u].pc # "idle"

\* clear_path
ClearPath ==
  /\ frontier' = {} /\ explored' = {} /\ path' = <<>> /\ dynamic_obstacles' = {}
  /\ stats' = ClearedStats

\* add_random_walls: the cells randint(3, GRID_SIZE - 4) can draw
WallRange ==
  {c \in Cells(size) :
     /\ c[1] >= WALL_MARGIN /\ c[1] <= size - (WALL_MARGIN + 1)
     /\ c[2] >= WALL_MARGIN /\ c[2] <= size - (WALL_MARGIN + 1)}

\* add_random_walls: the cells of the range that an attempt turns into a wall
WallEligible(g) ==
  {c \in WallRange :
     /\ ~(Abs(c[1] - start[1]) < WALL_EXCLUSION /\ Abs(c[2] - start[2]) < WALL_EXCLUSION)
     /\ ~(Abs(c[1] - target[1]) < WALL_EXCLUSION /\ Abs(c[2] - target[2]) < WALL_EXCLUSION)
     /\ g[c] = 0}

\* the subsets of S with at most k elements
RECURSIVE SubsetsUpTo(_, _)
SubsetsUpTo(S, k) ==
  IF k = 0 THEN {{}}
  ELSE LET P == SubsetsUpTo(S, k - 1)
       IN  P \cup {W \cup {c} : W \in P, c \in S}

\* add_random_walls(count) on grid g: the sets of cells one call can wall up.
\* An attempt on an eligible cell always adds it, so nothing is added only
\* when every attempt can draw a cell that is not eligible.
AddRandomWallsOutcomes(g, count) ==
  {W \in SubsetsUpTo(WallEligible(g), count) :
     W = {} => (WallRange \ WallEligible(g) # {} \/ count = 0)}

\* self.grid after add_random_walls walled up W
WithWalls(g, W) == [c \in Cells(size) |-> IF c \in W THEN 1 ELSE g[c]]

\* start button: a thread is created unless self.running is set
StartButton ==
  /\ Click
  /\ ~running
  /\ \E t \in Threads :
       /\ FreeSlot(t)
       /\ thr' = [thr EXCEPT ![t] = SpawnedThread(size)]
  /\ UNCHANGED <<size, grid, start, target, frontier, explored, path, dynamic_obstacles,
                 current_algorithm, running, paused, dls_depth_limit, stats,
                 spawn_budget, edit_mode>>

\* pause button
PauseButton ==
  /\ Click
  /\ paused' = ~paused
  /\ UNCHANGED <<size, grid, start, target, frontier, explored, path, dynamic_obstacles,
                 current_algorithm, running, dls_depth_limit, stats, spawn_budget,
                 edit_mode, thr>>

\* reset button: reset_search, then the grid rebuilt with fresh random walls
ResetButton ==
  LET blank == [c \in Cells(size) |->
                  IF c = target THEN 3 ELSE IF c = start THEN 2 ELSE 0]
  IN  /\ Click
      /\ frontier' = {} /\ explored' = {} /\ path' = <<>> /\ dynamic_obstacles' = {}
      /\ running' = FALSE /\ paused' = FALSE
      /\ stats' = ReadyStats
      /\ \E W \in AddRandomWallsOutcomes(blank, MaxWallsAdded) : grid' = WithWalls(blank, W)
      /\ UNCHANGED <<size, start, target, current_algorithm, dls_depth_limit,
                     spawn_budget, edit_mode, thr>>

\* clear button
ClearButton ==
  /\ Click
  /\ ClearPath
  /\ UNCHANGED <<size, grid, start, target, current_algorithm, running, paused,
                 dls_depth_limit, spawn_budget, edit_mode, thr>>

\* walls button: add_random_walls(20)
WallsButton ==
  /\ Click
  /\ \E W \in AddRandomWallsOutcomes(grid, MaxWallsAdded) : grid' = WithWalls(grid, W)
  /\ UNCHANGED <<size, start, target, frontier, explored, path, dynamic_obstacles,
                 current_algorithm, running, paused, dls_depth_limit, stats,
                 spawn_budget, edit_mode, thr>>

\* one of the algorithm buttons
SelectAlgorithm ==
  /\ Click
  /\ \E i \in 1..Len(ALGORITHMS) : current_algorithm' = i
  /\ ClearPath
  /\ UNCHANGED <<size, grid, start, target, running, paused, dls_depth_limit,
                 spawn_budget, edit_mode, thr>>

\* one of the mode buttons
ModeButton ==
  /\ Click
  /\ \E m \in EDIT_MODES : edit_mode' = m
  /\ UNCHANGED <<size, grid, start, target, frontier, explored, path, dynamic_obstacles,
                 current_algorithm, running, paused, dls_depth_limit, stats,
                 spawn_budget, thr>>

\* the cells the user clicks: the start, the target and the centre of the grid
ClickCells == {start, target, <<size \div 2, size \div 2>>}

\* handle_grid_click on cell c
HandleGridClick(c) ==
  CASE edit_mode = "place_start" ->
         /\ start' = c
         /\ grid' = [[grid EXCEPT ![start] = 0] EXCEPT ![c] = 2]
         /\ UNCHANGED target
    [] edit_mode = "place_target" ->
         /\ target' = c
         /\ grid' = [[grid EXCEPT ![target] = 0] EXCEPT ![c] = 3]
         /\ UNCHANGED start
    [] edit_mode = "place_wall" ->
         /\ grid' = IF c # start /\ c # target
                    THEN [grid EXCEPT ![c] = IF grid[c] = 0 THEN 1 ELSE 0]
                    ELSE grid
         /\ UNCHANGED <<start, target>>
    [] edit_mode = "erase" ->
         /\ grid' = IF c # start /\ c # target THEN [grid EXCEPT ![c] = 0] ELSE grid
         /\ UNCHANGED <<start, target>>

\* a mouse click on the grid: handled unless self.running is set
GridClick ==
  /\ Click
  /\ ~running
  /\ \E c \in ClickCells : HandleGridClick(c)
  /\ UNCHANGED <<size, frontier, explored, path, dynamic_obstacles, current_algorithm,
                 running, paused, dls_depth_limit, stats, spawn_budget, edit_mode, thr>>

----------------------------------------------------------------------------
(* A session of the program: the main loop and the worker threads it starts *)

\* the program idle, as __init__, a finished run or reset_search leave it
InitIdle ==
  /\ frontier = {} /\ explored = {} /\ path = <<>> /\ dynamic_obstacles = {}
  /\ running = FALSE /\ paused = FALSE
  /\ stats = ReadyStats
  /\ edit_mode = "place_wall"
  /\ current_algorithm \in 1..Len(ALGORITHMS)
  /\ dls_depth_limit = MaxDepthLimit
  /\ thr = [t \in Threads |-> IdleThread(size)]

\* the empty grid of side GRID_SIZE, from corner to corner
InitSmall ==
  /\ size = GRID_SIZE
  /\ start = <<0, 0>> /\ target = <<GRID_SIZE - 1, GRID_SIZE - 1>>
  /\ grid = GridOf(GRID_SIZE, start, target, {})

InitUI == InitSmall /\ InitIdle /\ click_budget = MaxClicks /\ spawn_budget = 0

\* the steps of worker thread t
WorkerStep(t) ==
  \/ RunAlgorithm(t)
  \/ BfsStep(t)
  \/ DfsStep(t)
  \/ UcsStep(t)
  \/ DlsStep(t)
  \/ DlsWait(t)
  \/ IddfsStep(t)
  \/ BidirectionalStep(t)
  \/ Finish(t)

\* the events of the main loop
UiEvent ==
  \/ StartButton
  \/ PauseButton
  \/ ResetButton
  \/ ClearButton
  \/ WallsButton
  \/ SelectAlgorithm
  \/ ModeButton
  \/ GridClick

NextUI == UiEvent \/ \E t \in Threads : WorkerStep(t)

SpecUI == InitUI /\ [][NextUI]_vars

----------------------------------------------------------------------------
(* Reference notions the properties are stated against: they are computed     *)
(* from the grid alone, not by the algorithms.                                *)

Offsets == {DIRECTIONS[i] : i \in 1..Len(DIRECTIONS)}

Traversable(c) == c \in Cells(size) /\ grid[c] # 1

\* the traversable cells one move away from c
Moves(c) == {d \in Cells(size) : Traversable(d) /\ <<d[1] - c[1], d[2] - c[2]>> \in Offsets}

RECURSIVE ReachFrom(_)
ReachFrom(S) ==
  LET T == S \cup UNION {Moves(c) : c \in S}
  IN  IF T = S THEN S ELSE ReachFrom(T)

\* the cells reachable from c through traversable cells
Reach(c) == ReachFrom({c})

TargetReachable == target \in Reach(start)

RECURSIVE HopsFrom(_, _, _)
HopsFrom(seen, layer, k) ==
  IF target \in layer THEN k
  ELSE IF layer = {} THEN -1
  ELSE LET next == UNION {Moves(c) : c \in layer} \ seen
       IN  HopsFrom(seen \cup next, next, k + 1)

\* the shortest hop distance from start to target (-1: unreachable)
ShortestHops == HopsFrom({start}, {start}, 0)

\* p leads from start to target over traversable cells, by moves of DIRECTIONS
ValidPath(p) ==
  /\ Len(p) >= 1
  /\ p[1] = start /\ p[Len(p)] = target
  /\ \A i \in 1..Len(p) : p[i] \in Cells(size) /\ grid[p[i]] # 1
  /\ \A i \in 1..(Len(p) - 1) : <<p[i + 1][1] - p[i][1], p[i + 1][2] - p[i][2]>> \in Offsets

\* the cost of a path: <<orthogonal moves, diagonal moves>>
PathCost(p) ==
  LET diag == {i \in 1..(Len(p) - 1) : p[i][1] # p[i + 1][1] /\ p[i][2] # p[i + 1][2]}
  IN  <<Len(p) - 1 - Cardinality(diag), Cardinality(diag)>>

Unknown == <<-1, -1>>

\* one round of relaxation of the cheapest known costs from start
RelaxRound(dist) ==
  [c \in Cells(size) |->
     LET via == {p \in Cells(size) : dist[p] # Unknown /\ c \in Moves(p)}
         K == ({dist[c]} \ {Unknown}) \cup
              {IF p[1] # c[1] /\ p[2] # c[2] THEN <<dist[p][1], dist[p][2] + 1>>
                                            ELSE <<dist[p][1] + 1, dist[p][2]>> : p \in via}
     IN  IF K = {} THEN Unknown ELSE CHOOSE x \in K : \A y \in K : ~CostLess(y, x)]

RECURSIVE RelaxAll(_)
RelaxAll(dist) ==
  LET d2 == RelaxRound(dist) IN IF d2 = dist THEN dist ELSE RelaxAll(d2)

\* the least cost of a traversable path from start to target
LeastCost == RelaxAll([c \in Cells(size) |-> IF c = start THEN ZeroCost ELSE Unknown])[target]

\* the run of algorithm `name` by thread t has returned
Returned(t, name) == thr[t].pc \in {"return", "done"} /\ thr[t].alg = name

Occurrences(p, c) == Cardinality({i \in 1..Len(p) : p[i] = c})

----------------------------------------------------------------------------
(* Properties *)

\* C1: with the target reachable and no dynamic obstacle, bfs reports success
\* with a path of ShortestHops hops; on the empty 5x5 grid from (0,0) to (4,4)
\* the path has 5 cells and nodes_explored > 0.
C1_BfsShortest ==
  \A t \in Threads :
    (Returned(t, "BFS") /\ TargetReachable) =>
       /\ thr[t].success
       /\ stats.algorithm_status = Status("Path Found!", 0)
       /\ ValidPath(path)
       /\ Len(path) - 1 = ShortestHops
       /\ stats.path_length = Len(path)
       /\ (size = 5 /\ start = <<0, 0>> /\ target = <<4, 4>>) =>
             (Len(path) = 5 /\ stats.nodes_explored > 0)

C1_Witness ==
  \E t \in Threads :
    /\ Returned(t, "BFS") /\ thr[t].success
    /\ size = GRID_SIZE /\ ShortestHops >= 3
    /\ Len(path) = ShortestHops + 1

\* C2: with the target reachable and no dynamic obstacle, ucs reports success
\* with a path whose cost (1 per orthogonal move, sqrt(2) per diagonal move) is
\* the least cost of any traversable path from start to target.
C2_UcsLeastCost ==
  \A t \in Threads :
    (Returned(t, "UCS") /\ TargetReachable) =>
       /\ thr[t].success
       /\ ValidPath(path)
       /\ PathCost(path) = LeastCost

C2_Witness ==
  \E t \in Threads :
    /\ Returned(t, "UCS") /\ thr[t].success
    /\ size = 5 /\ start = <<3, 2>> /\ target = <<0, 2>>
    /\ PathCost(path) = <<5, 1>>

\* C3: whenever dfs, dls or iddfs reports success, the stored path starts at
\* the start cell, ends at the target cell, moves by one offset of DIRECTIONS
\* at a time and stays on in-bounds cells that are not walls.
C3_DepthFirstPathValid ==
  \A t \in Threads :
    ((Returned(t, "DFS") \/ Returned(t, "DLS") \/ Returned(t, "IDDFS")) /\ thr[t].success)
       => ValidPath(path)

C3_Witness ==
  \E t \in Threads :
    /\ Returned(t, "IDDFS") /\ thr[t].success
    /\ Len(path) >= 4
    /\ \E c \in Cells(size) : grid[c] = 1

\* C4: whenever bidirectional_search reports success, the joined path starts
\* at start, ends at target, holds the meeting cell exactly once, and moves by
\* one offset of DIRECTIONS at a time when read from start to target.
C4_BidirectionalPathValid ==
  \A t \in Threads :
    (Returned(t, "Bidirectional") /\ thr[t].success) =>
       /\ ValidPath(path)
       /\ Occurrences(path, thr[t].meet) = 1

C4_Witness ==
  \E t \in Threads :
    /\ Returned(t, "Bidirectional") /\ thr[t].success
    /\ Len(path) >= 4
    /\ thr[t].meet \notin {start, target}
    /\ thr[t].meet = path[3]

\* C5: with the target reachable and no dynamic obstacle, the path of
\* bidirectional_search has as many hops as the shortest path from start to target.
C5_BidirectionalShortest ==
  \A t \in Threads :
    (Returned(t, "Bidirectional") /\ TargetReachable) =>
       (thr[t].success /\ Len(path) - 1 = ShortestHops)

\* C6: when the shortest hop distance is d >= 1, iddfs succeeds in the
\* iteration with depth_limit = d and returns a path of exactly d hops.
C6_IddfsFindsAtShortestDepth ==
  \A t \in Threads :
    (Returned(t, "IDDFS") /\ ShortestHops >= 1) =>
       /\ thr[t].success
       /\ thr[t].depth_limit = ShortestHops
       /\ Len(path) - 1 = ShortestHops

\* C7: dls(limit) reports success on every grid whose target is reachable from
\* start in at most `limit` hops.
C7_DlsCompleteWithinLimit ==
  \A t \in Threads :
    (Returned(t, "DLS") /\ ShortestHops >= 0 /\ ShortestHops <= thr[t].limit) =>
       thr[t].success

\* C8: with the target reachable and no dynamic obstacle, an uncancelled run of
\* BFS, DFS, UCS, IDDFS or Bidirectional ends reporting a found path, never
\* 'No Path Found'.
C8_CompleteWhenReachable ==
  \A t \in Threads :
    (/\ thr[t].pc \in {"return", "done"}
     /\ thr[t].alg \in {"BFS", "DFS", "UCS", "IDDFS", "Bidirectional"}
     /\ TargetReachable) =>
       (thr[t].success /\ stats.algorithm_status # Status("No Path Found", 0))

\* C9: a failed dls run reports the depth-exceeded tag when some branch was cut
\* off at the depth limit and the no-path tag when nothing was cut off and the
\* target is unreachable; the two cases never share a tag.
C9_DlsFailureCauseReported ==
  \A t \in Threads :
    (Returned(t, "DLS") /\ ~thr[t].success) =>
       /\ thr[t].cutoff => stats.algorithm_status[1] = "No Path (limit too small)"
       /\ (~thr[t].cutoff /\ ~TargetReachable) =>
             stats.algorithm_status[1] # "No Path (limit too small)"

\* C10 as stated: with the target unreachable, each of the six algorithms
\* reports failure and ends with explored equal to the set of cells reachable
\* from start.
C10_ExploredIsReachAllSix ==
  \A t \in Threads :
    (thr[t].pc \in {"return", "done"} /\ ~TargetReachable) =>
       (~thr[t].success /\ explored = Reach(start))

\* C10 as amended: with the target unreachable, each of the six algorithms
\* reports failure with an empty path; bfs, dfs and ucs end with explored equal
\* to the set of cells reachable from start and an empty frontier; dls and iddfs
\* end with explored inside that set; bidirectional_search ends with explored
\* inside the cells reachable from start or from target.
C10_FailureAndExplored ==
  \A t \in Threads :
    (thr[t].pc \in {"return", "done"} /\ ~TargetReachable) =>
       /\ ~thr[t].success
       /\ path = <<>>
       /\ stats.algorithm_status[1] \in {"No Path Found", "No Path (limit too small)"}
       /\ thr[t].alg \in {"BFS", "DFS", "UCS"} =>
            (explored = Reach(start) /\ frontier = {})
       /\ thr[t].alg \in {"DLS", "IDDFS"} =>
            (start \in explored /\ explored \subseteq Reach(start))
       /\ thr[t].alg = "Bidirectional" =>
            ({start, target} \subseteq explored
             /\ explored \subseteq (Reach(start) \cup Reach(target)))

C10_Witness ==
  \E t \in Threads :
    /\ Returned(t, "DFS") /\ ~thr[t].success
    /\ \E r \in 1..(size - 2) : \A c \in Cells(size) : c[1] = r => grid[c] = 1
    /\ start[1] = 0 /\ target[1] = size - 1
    /\ explored = {c \in Cells(size) : c[1] = 0}

----------------------------------------------------------------------------
(* Properties of a session *)

\* thread t exists and run_algorithm has not returned in it
Live(t) == thr[t].pc \notin {"idle", "done"}

\* thread t is inside the algorithm run_algorithm dispatched to
Searching(t) ==
  thr[t].pc \in {"bfs", "dfs", "ucs", "dls", "dls_wait", "iddfs", "bidirectional"}

\* the step is one of worker thread t
StepOf(t) == thr'[t] # thr[t]

\* C11: at no time are two worker threads inside a search, whatever the order
\* of the start, pause, reset, clear and selection commands and the workers'
\* steps.
C11_AtMostOneSearch == Cardinality({t \in Threads : Searching(t)}) <= 1

\* the cells in the visited set or map of a worker with locals L
VisitedCells(L) ==
  L.visited \cup {c \in Cells(size) : L.visited_cost[c] # <<-1, -1>>}
            \cup {c \in Cells(size) : L.forward_visited[c] # 0}
            \cup {c \in Cells(size) : L.backward_visited[c] # 0}

\* C12: a step a worker takes inside its algorithm while self.running is False
\* (the run was cancelled during its wait) adds no cell to explored, to the
\* frontier set or to the worker's visited set (the start cell aside, which a
\* depth-limited pass puts there before its first call).
C12_NoGrowthAfterCancel ==
  [][\A t \in Threads :
       (Searching(t) /\ ~running /\ StepOf(t)) =>
          /\ explored' \subseteq explored
          /\ frontier' \subseteq frontier
          /\ VisitedCells(thr'[t]) \subseteq VisitedCells(thr[t]) \cup {start}]_vars

\* the search state as reset_search and clear_path leave it
Cleared ==
  /\ frontier = {} /\ explored = {} /\ path = <<>>
  /\ stats.nodes_explored = 0 /\ stats.path_length = 0 /\ stats.nodes_in_frontier = 0
  /\ stats.algorithm_status = Status("Ready", 0)

\* C13: while self.running is False and no started thread is waiting to enter
\* run_algorithm (a reset happened and no start command since), a step of a
\* worker that is still inside its algorithm leaves frontier, explored and path
\* empty, the three counters 0 and the status 'Ready'.
C13_ResetStateStays ==
  [][\A t \in Threads :
       (/\ Searching(t) /\ ~running /\ StepOf(t)
        /\ \A u \in Threads : thr[u].pc # "run_algorithm"
        /\ Cleared) => Cleared']_vars

----------------------------------------------------------------------------
(* Two runs of one algorithm on one grid, one after the other, with the     *)
(* pause button pressed at any moment: the first worker has just entered    *)
(* its algorithm, the second is started once the first has returned.        *)

\* a grid of side GRID_SIZE from corner to corner, with at most MaxWalls walls
InitCorner ==
  /\ size = GRID_SIZE
  /\ start = <<0, 0>> /\ target = <<GRID_SIZE - 1, GRID_SIZE - 1>>
  /\ \E W \in SUBSET (Cells(GRID_SIZE) \ {start, target}) :
       /\ Cardinality(W) <= MaxWalls
       /\ grid = GridOf(GRID_SIZE, start, target, W)

\* the state run_algorithm leaves when it calls the selected algorithm
InitPause ==
  /\ InitCorner \/ InitSeparated \/ InitScenario \/ InitDetour
  /\ frontier = {} /\ explored = {} /\ path = <<>> /\ dynamic_obstacles = {}
  /\ running = TRUE /\ paused = FALSE
  /\ edit_mode = "place_wall"
  /\ click_budget = MaxClicks /\ spawn_budget = 0
  /\ current_algorithm \in 1..Len(ALGORITHMS)
  /\ dls_depth_limit \in (IF ALGORITHMS[current_algorithm] = "DLS"
                           THEN 1..MaxDepthLimit ELSE {MaxDepthLimit})
  /\ stats = [ClearedStats EXCEPT
                !.algorithm_status = EntryStatus(ALGORITHMS[current_algorithm])]
  /\ thr = [t \in Threads |->
              IF t = 1
              THEN AlgorithmEntry(ALGORITHMS[current_algorithm],
                     [IdleThread(size) EXCEPT !.alg = ALGORITHMS[current_algorithm]])
              ELSE IdleThread(size)]

NextPause == StartButton \/ PauseButton \/ \E t \in Threads : WorkerStep(t)

SpecPause == InitPause /\ [][NextPause]_vars

\* C14: two runs of the same algorithm on the same grid, the second started
\* after the first returned and no dynamic obstacle spawned, end with the same
\* success or failure, the same path, the same explored set and the same
\* nodes_explored and path_length, however often either was paused and resumed.
C14_PausedRunSameResult ==
  (/\ thr[1].pc = "done" /\ thr[2].pc = "done"
   /\ \A t \in Threads : t > 2 => thr[t].pc = "idle") =>
     /\ thr[1].success = thr[2].success
     /\ thr[1].result = thr[2].result

\* an unpaused run and a run that sat in a pause wait, both successful
C14_Witness ==
  /\ thr[1].pc = "done" /\ thr[2].pc = "done"
  /\ ~thr[1].was_paused /\ thr[2].was_paused
  /\ thr[2].success /\ Len(thr[2].result.path) >= 3
  /\ thr[2].alg = "DLS"

\* C15: when a thread enters run_algorithm while no other thread is alive, it
\* leaves frontier, explored and path empty, the counters 0, self.running set
\* and self.paused clear.
C15_RunBeginsRunning ==
  [][\A t \in Threads :
       (/\ thr[t].pc = "run_algorithm" /\ StepOf(t)
        /\ \A u \in Threads : u # t => ~Live(u)) =>
          /\ frontier' = {} /\ explored' = {} /\ path' = <<>>
          /\ stats'.nodes_explored = 0 /\ stats'.path_length = 0
          /\ stats'.nodes_in_frontier = 0
          /\ running' /\ ~paused']_vars

\* C16: once another algorithm has been selected during a run, a step of the
\* only live worker, still inside the algorithm selected before, adds no cell
\* to explored, does not raise nodes_explored, and leaves the cleared search
\* state cleared.
C16_SelectionStopsRun ==
  [][\A t \in Threads :
       (/\ Searching(t) /\ StepOf(t)
        /\ thr[t].alg # ALGORITHMS[current_algorithm]
        /\ \A u \in Threads : u # t => ~Live(u)) =>
          /\ explored' \subseteq explored
          /\ stats'.nodes_explored <= stats.nodes_explored
          /\ Cleared => Cleared']_vars

\* C17: a step during which self.running stays set (a command given or a
\* worker step taken while a run is Running or Paused) leaves the walls, the
\* start cell and the target cell as they are.
C17_GridFrozenDuringRun ==
  [][(running /\ running') => (grid' = grid /\ start' = start /\ target' = target)]_vars

\* C18: the grid holds exactly one cell marked 2 and exactly one marked 3,
\* they are the cells self.start and self.target, and the two differ (so that
\* neither is a wall).
C18_OneStartOneTarget ==
  /\ Cardinality({c \in Cells(size) : grid[c] = 2}) = 1
  /\ Cardinality({c \in Cells(size) : grid[c] = 3}) = 1
  /\ grid[start] = 2 /\ grid[target] = 3
  /\ start # target

----------------------------------------------------------------------------
(* A session in which spawn_dynamic_obstacle succeeds once: the worker of a  *)
(* start command has just been created on the empty grid                     *)

InitObstacles ==
  /\ InitSmall
  /\ frontier = {} /\ explored = {} /\ path = <<>> /\ dynamic_obstacles = {}
  /\ running = FALSE /\ paused = FALSE
  /\ stats = ReadyStats
  /\ edit_mode = "place_wall"
  /\ current_algorithm \in 1..Len(ALGORITHMS)
  /\ dls_depth_limit = MaxDepthLimit
  /\ thr = [t \in Threads |-> IF t = 1 THEN SpawnedThread(size) ELSE IdleThread(size)]
  /\ click_budget = MaxClicks - 1 /\ spawn_budget = 1

NextObstacles ==
  \/ StartButton
  \/ PauseButton
  \/ WallsButton
  \/ GridClick
  \/ \E t \in Threads : WorkerStep(t)

SpecObstacles == InitObstacles /\ [][NextObstacles]_vars

\* C19: no cell of dynamic_obstacles is the start cell, the target cell or a
\* wall.
C19_ObstaclesOffStartTargetWalls ==
  \A c \in dynamic_obstacles : c # start /\ c # target /\ grid[c] # 1

----------------------------------------------------------------------------
(* reconstruct_path on its own: every arena of at most MaxNodes nodes on the *)
(* cells of the grid, each node created with no parent or with an earlier    *)
(* node as its parent (Node.__init__ takes an existing node), and every node *)
(* of the arena as the argument                                              *)

\* the arenas of exactly n nodes
RECURSIVE ArenasOf(_)
ArenasOf(n) ==
  IF n = 0 THEN {<<>>}
  ELSE {Append(a, Node(c[1], c[2], ZeroCost, p)) :
          a \in ArenasOf(n - 1), c \in Cells(GRID_SIZE), p \in 0..(n - 1)}

Arenas == UNION {ArenasOf(n) : n \in 1..MaxNodes}

\* the caller holds the node in thr[1].queue, as bfs does when it calls
\* reconstruct_path(current)
InitReconstruct ==
  /\ InitSmall
  /\ frontier = {} /\ explored = {} /\ path = <<>> /\ dynamic_obstacles = {}
  /\ running = FALSE /\ paused = FALSE
  /\ stats = ReadyStats
  /\ edit_mode = "place_wall"
  /\ current_algorithm = 1
  /\ dls_depth_limit = MaxDepthLimit
  /\ click_budget = 0 /\ spawn_budget = 0
  /\ \E a \in Arenas : \E id \in 1..Len(a) :
       thr = [t \in Threads |->
                IF t = 1 THEN [IdleThread(size) EXCEPT !.pc = "reconstruct_path",
                                                       !.nodes = a, !.queue = <<id>>]
                ELSE IdleThread(size)]

\* self.path = self.reconstruct_path(current)
ReconstructCall ==
  /\ thr[1].pc = "reconstruct_path"
  /\ path' = ReconstructPath(thr[1].nodes, Head(thr[1].queue))
  /\ thr' = [thr EXCEPT ![1].pc = "reconstructed"]
  /\ UNCHANGED <<frontier, explored, dynamic_obstacles, running, paused, stats,
                 spawn_budget>>
  /\ UNCHANGED gridVars

SpecReconstruct == InitReconstruct /\ [][ReconstructCall]_vars

\* C20: reconstruct_path(node) returns the cells of the chain of nodes that
\* ends in node: as many cells as the chain has nodes, the first the cell of
\* the node without a parent, the last the cell of node, and the node of each
\* cell the parent of the node of the next cell.
C20_ReconstructFollowsChain ==
  thr[1].pc = "reconstructed" =>
    LET nodes == thr[1].nodes
        k     == Len(path)
    IN  /\ k >= 1
        /\ \E ch \in [1..k -> 1..Len(nodes)] :
             /\ nodes[ch[1]].parent = 0
             /\ ch[k] = Head(thr[1].queue)
             /\ \A i \in 1..(k - 1) : nodes[ch[i + 1]].parent = ch[i]
             /\ \A i \in 1..k : path[i] = NodePos(nodes[ch[i]])

C20_Witness ==
  /\ thr[1].pc = "reconstructed"
  /\ Len(path) >= 3
  /\ path[1] # path[2] /\ path[2] # path[3] /\ path[1] # path[3]

----------------------------------------------------------------------------
(* Properties of the bookkeeping of one run *)

\* C21: stats['nodes_explored'] equals the number of cells in explored after
\* every step of every algorithm (each cell is counted once), for
\* bidirectional_search too, where both sides count into the one counter.
C21_CountedOnce == stats.nodes_explored = Cardinality(explored)

\* C22: while a worker is inside its algorithm, no step removes a cell from
\* explored (neither a step of the algorithm, iddfs going on to its next depth
\* among them, nor a command handled meanwhile).
C22_ExploredOnlyGrows ==
  [][(\E t \in Threads : Searching(t)) => explored \subseteq explored']_vars

\* the cells of the nodes a worker with locals L holds for expansion: in its
\* queue, stack or heap, or (dls) in the calls of dls_recursive below the
\* outermost one
HeldCells(L) ==
  LET cellsOf(q) == {NodePos(L.nodes[q[i]]) : i \in 1..Len(q)}
  IN  CASE L.pc = "bfs" -> cellsOf(L.queue)
        [] L.pc = "dfs" -> cellsOf(L.stack)
        [] L.pc = "ucs" -> cellsOf(L.heap)
        [] L.pc = "bidirectional" -> cellsOf(L.forward_queue) \cup cellsOf(L.backward_queue)
        [] L.pc \in {"dls", "dls_wait"} ->
             {NodePos(L.nodes[L.frames[i].node]) : i \in 2..Len(L.frames)}
        [] OTHER -> {}

\* C23: after every iteration a worker has completed inside bfs, dfs, ucs, dls
\* or bidirectional_search, self.frontier is disjoint from self.explored and
\* holds exactly the cells waiting in the queue, stack or heap (for dls, on the
\* recursion path); and it is empty when the loop ended with the container
\* empty.
C23_FrontierIsPending ==
  \A t \in Threads :
    /\ (thr[t].pc \in {"bfs", "dfs", "ucs", "dls", "bidirectional"} /\ explored # {}) =>
          /\ frontier \cap explored = {}
          /\ frontier = HeldCells(thr[t])
    /\ (/\ thr[t].pc \in {"return", "done"} /\ ~thr[t].success
        /\ thr[t].alg \in {"BFS", "DFS", "UCS", "Bidirectional"}) => frontier = {}

----------------------------------------------------------------------------
(* The order in which dfs and dls_recursive take the neighbours *)

\* the cell the next iteration of dfs pops, or the next call of dls_recursive
\* is made on
ExpandsNext(L) ==
  IF L.pc = "dfs" THEN NodePos(L.nodes[L.stack[Len(L.stack)]])
  ELSE NodePos(L.nodes[L.frames[Len(L.frames)].node])

\* the depth of the call of dls_recursive that is made next
DepthNext(L) == L.frames[Len(L.frames)].depth

\* the offsets of DIRECTIONS, in order, that lead from c to an in-bounds cell
\* that is no wall, no dynamic obstacle and not in visited
NewNeighbours(c, visited) ==
  {i \in 1..Len(DIRECTIONS) :
     LET d == <<c[1] + DIRECTIONS[i][1], c[2] + DIRECTIONS[i][2]>>
     IN  d \in Cells(size) /\ grid[d] # 1 /\ d \notin dynamic_obstacles /\ d \notin visited}

\* the first such neighbour: Up, Right, Down, Down-Right, Left, Up-Left
FirstNewNeighbour(c, visited) ==
  LET N == NewNeighbours(c, visited)
      i == CHOOSE i \in N : \A k \in N : i <= k
  IN  <<c[1] + DIRECTIONS[i][1], c[2] + DIRECTIONS[i][2]>>

\* thread t is about to expand a cell other than the target that has a new
\* neighbour, and the step is the expansion
ExpandsWithNewNeighbour(t) ==
  /\ thr[t].pc \in {"dfs", "dls"} /\ StepOf(t)
  /\ running /\ ~paused
  /\ thr[t].pc = "dfs" => thr[t].stack # <<>>
  /\ ExpandsNext(thr[t]) # target
  /\ NewNeighbours(ExpandsNext(thr[t]), thr[t].visited) # {}

\* C24 as stated: in dfs and in dls, the cell expanded after a cell that has a
\* traversable undiscovered neighbour is the first such neighbour in the order
\* Up, Right, Down, Down-Right, Left, Up-Left.
C24_VisitPriority ==
  [][\A t \in Threads :
       ExpandsWithNewNeighbour(t) =>
          /\ thr'[t].pc = thr[t].pc
          /\ ExpandsNext(thr'[t]) = FirstNewNeighbour(ExpandsNext(thr[t]), thr[t].visited)]_vars

\* C24 as amended: the same, for dfs and for the calls of dls_recursive whose
\* depth is below the limit; a call at the limit returns without looking at
\* its neighbours.
C24_VisitPriorityBelowLimit ==
  [][\A t \in Threads :
       (ExpandsWithNewNeighbour(t)
        /\ (thr[t].pc = "dls" => DepthNext(thr[t]) < thr[t].limit)) =>
          /\ thr'[t].pc = thr[t].pc
          /\ ExpandsNext(thr'[t]) = FirstNewNeighbour(ExpandsNext(thr[t]), thr[t].visited)]_vars

\* a call of dls_recursive about to be made on a cell that was reached from
\* its parent, already explored, by a move other than Up and Right
C24_Witness ==
  \E t \in Threads :
    /\ thr[t].pc = "dls" /\ Len(thr[t].frames) >= 3
    /\ LET L == thr[t]
           n == L.nodes[L.frames[Len(L.frames)].node]
           p == L.nodes[n.parent]
       IN  /\ NodePos(p) \in explored
           /\ <<n.row - p.row, n.col - p.col>> \in {DIRECTIONS[i] : i \in 3..Len(DIRECTIONS)}

----------------------------------------------------------------------------
(* Pause *)

\* every live worker sits in the wait of a pause branch, one at least inside
\* its algorithm
AllInPause ==
  /\ \E t \in Threads : Searching(t) /\ thr[t].in_pause
  /\ \A t \in Threads : Live(t) => thr[t].in_pause

\* C25: while self.paused stays set and the run is not cancelled, a step taken
\* by a worker that already sits in a pause wait adds or removes no cell of
\* explored, of the frontier set, of a visited set or of the queue, stack, heap
\* or recursion stack, leaves nodes_explored as it is and spawns no dynamic
\* obstacle.
C25_FrozenWhilePaused ==
  [][(/\ AllInPause
      /\ paused /\ paused' /\ running /\ running'
      /\ click_budget' = click_budget) =>
        /\ explored' = explored /\ frontier' = frontier
        /\ thr' = thr
        /\ stats'.nodes_explored = stats.nodes_explored
        /\ dynamic_obstacles' = dynamic_obstacles]_vars

----------------------------------------------------------------------------
(* Termination: one run on a corner-to-corner grid, with the pause button    *)
(* and one obstacle spawn.  The scheduler lets every thread that can take a  *)
(* step take one eventually.                                                 *)

\* the corner-to-corner grid with the middle rows walled up: no path
InitWalledOff ==
  /\ size = GRID_SIZE
  /\ start = <<0, 0>> /\ target = <<GRID_SIZE - 1, GRID_SIZE - 1>>
  /\ grid = GridOf(GRID_SIZE, start, target,
                   {c \in Cells(GRID_SIZE) : c[1] > 0 /\ c[1] < GRID_SIZE - 1})

InitLive ==
  /\ InitSmall \/ InitWalledOff
  /\ frontier = {} /\ explored = {} /\ path = <<>> /\ dynamic_obstacles = {}
  /\ running = FALSE /\ paused = FALSE
  /\ stats = ReadyStats
  /\ edit_mode = "place_wall"
  /\ current_algorithm \in 1..Len(ALGORITHMS)
  /\ dls_depth_limit = MaxDepthLimit
  /\ thr = [t \in Threads |-> IF t = 1 THEN SpawnedThread(size) ELSE IdleThread(size)]
  /\ click_budget = MaxClicks - 1 /\ spawn_budget = 1

NextLive == PauseButton \/ \E t \in Threads : WorkerStep(t)

\* worker t is not blocked: it is alive and, when it sits in the pause loop of
\* dls_recursive, the loop test "self.paused and self.running" is false; when
\* it sits in the wait of a pause branch with self.paused still set, its next
\* iteration changes something only if it spawns an obstacle
CanStep(t) ==
  /\ Live(t)
  /\ thr[t].pc = "dls_wait" => ~(paused /\ running)
  /\ (/\ thr[t].pc \in {"bfs", "dfs", "ucs", "bidirectional"}
      /\ thr[t].in_pause /\ paused /\ running
      /\ HeldCells(thr[t]) # {}
      /\ thr[t].pc = "bidirectional" =>
           (thr[t].forward_queue # <<>> /\ thr[t].backward_queue # <<>>))
       => (spawn_budget > 0 /\ SpawnCandidates # {})

\* a step of the main loop uses up an event, a step of a worker does not
WorkerTurn == click_budget' = click_budget

\* the interpreter keeps scheduling the worker thread: weak fairness of the
\* worker's steps, WF_vars(\E t \in Threads : WorkerStep(t)), with the
\* enabledness of a worker step written out as CanStep (TLC does not get
\* through the evaluation of ENABLED on the search steps); the return of
\* run_algorithm, whose enabledness it does evaluate, is stated with WF_
WorkerFairness ==
  /\ \/ []<>(~ \E t \in Threads : CanStep(t))
     \/ []<><<WorkerTurn>>_vars
  /\ WF_vars(\E t \in Threads : Finish(t))

SpecLive == InitLive /\ [][NextLive]_vars /\ WorkerFairness

\* C26: from every state in which a started worker has not returned, a state
\* is reached in which it has returned from run_algorithm with self.running
\* False, or in which the run is paused (so that it terminates unless it is
\* left paused for ever), whichever of the six algorithms runs and whether or
\* not an obstacle is spawned.
C26_RunTerminates ==
  (\E t \in Threads : Live(t)) ~>
     (paused \/ (~running /\ \A t \in Threads : ~Live(t)))

\* a run that was paused and resumed and saw an obstacle spawned has returned
C26_Witness ==
  /\ thr[1].pc = "done" /\ ~running
  /\ thr[1].was_paused /\ ~paused
  /\ dynamic_obstacles # {}
  /\ thr[1].alg = "IDDFS"

----------------------------------------------------------------------------
(* The 'No Path Found' status                                              *)

\* worker t is the only worker that was ever started
OnlyWorker(t) == \A u \in Threads \ {t} : thr[u].pc = "idle"

\* worker t leaves the loop of bfs, dfs or ucs on self.running being False
\* (the run was reset) while its queue, stack or heap still holds a node
CancelledWithPending(t) ==
  /\ OnlyWorker(t)
  /\ thr[t].pc \in {"bfs", "dfs", "ucs"}
  /\ HeldCells(thr[t]) # {}
  /\ ~running
  /\ StepOf(t)
  /\ thr'[t].pc = "return"

\* C27: a run ended by a reset while its queue, stack or heap is not empty
\* does not end with the status tag 'No Path Found'.
C27_NoPathOnlyOnExhaustion ==
  [][\A t \in Threads :
       CancelledWithPending(t) => stats'.algorithm_status[1] # "No Path Found"]_vars

----------------------------------------------------------------------------
(* Obstacles spawned during a single run                                   *)

\* one run on any grid, with an obstacle spawned at any iteration
InitSpawn ==
  /\ InitGrid
  /\ spawn_budget = 1
  /\ InitCommon

SpecSpawn == InitSpawn /\ [][Next]_vars

\* the cells of self.path
PathCells == {path[i] : i \in 1..Len(path)}

\* C28: in a single run with obstacles spawned at any iteration, a cell added
\* to explored by a step is not a dynamic obstacle after that step (whose
\* spawn comes before its expansion), and once a worker has reported success
\* no cell of the path is a dynamic obstacle.
C28_ObstaclesNeverExpanded ==
  [][\A t \in Threads :
       /\ (Searching(t) /\ StepOf(t)) =>
             (explored' \ explored) \cap dynamic_obstacles' = {}
       /\ thr'[t].success => (PathCells \cap dynamic_obstacles)' = {}]_vars

----------------------------------------------------------------------------
(* The depth limit of dls                                                  *)

\* dls has returned True to run_algorithm or to iddfs
DlsSucceeded(L) ==
  /\ L.alg \in {"DLS", "IDDFS"}
  /\ L.success \/ L.dls_ret = "true"

\* C29: when dls(limit) has reported success the path has at most limit hops,
\* and every call of dls_recursive on the stack, the one about to expand its
\* cell included, has a depth of at most limit.
C29_DlsWithinLimit ==
  \A t \in Threads :
    /\ DlsSucceeded(thr[t]) => Len(path) - 1 <= thr[t].limit
    /\ thr[t].pc \in {"dls", "dls_wait"} =>
         \A i \in 1..Len(thr[t].frames) : thr[t].frames[i].depth <= thr[t].limit

\* a DLS run that found the target at a depth equal to its limit, after some
\* other call had been cut off at the limit
C29_Witness ==
  /\ thr[1].pc = "done" /\ thr[1].alg = "DLS" /\ thr[1].success
  /\ thr[1].cutoff
  /\ thr[1].limit >= 2
  /\ Len(path) - 1 = thr[1].limit

====
